---- MODULE Spec2Model ----
\* Verification development for the customer-map backend:
\*   backend/services/geocoding_service.py  (GeocodingService: cache, retry, batch, reverse)
\*   backend/database.py                    (CustomerDirectoryRepository: radius search)
\* Times are in tenths of a second, coordinates in whole degrees, distances in metres.
EXTENDS Integers, Sequences, FiniteSets, TLC

VARIABLES client, tracing, cache, hits, misses, last, trace, served, ranFn, records, job

vars == <<client, tracing, cache, hits, misses, last, trace, served, ranFn, records, job>>

-----------------------------------------------------------------------------
\* Bounds of the model.

\* most records in the store
MaxRecords == 3
\* most get_coordinates lookups between two clear_cache calls
MaxLookups == 4
\* capacity of the lru_cache, scaled down from 1000 so that eviction happens
maxsize == 2

-----------------------------------------------------------------------------
\* Program constants.

max_retries == 3
\* self.retry_delay = 1.0 s
retry_delay == 10
\* time.sleep(0.1) in batch_geocode
batch_delay == 1
\* batch_size = 50 of the geocoding scripts, scaled down so that a store of
\* MaxRecords rows takes more than one batch
batch_size == 2

\* Python's None where a float is expected: a value outside every coordinate range.
None == 9999
\* Python's None where a str is expected.
NoneStr == <<"None">>
\* (None, None)
Unresolved == <<None, None>>

-----------------------------------------------------------------------------
\* Text: an address is a sequence of characters.

\* the inputs of get_coordinates (Optional[str]): None, the empty text, blanks, and
\* texts that differ in case and in surrounding blanks
Addresses ==
  {NoneStr, <<>>, <<" ">>, <<"a">>, <<"A">>, <<" ", "a">>, <<"A", " ">>,
   <<"a", "a">>, <<"a", "A">>}

isspace(c) == c = " "

RECURSIVE lstrip(_)
lstrip(s) == IF s # <<>> /\ isspace(Head(s)) THEN lstrip(Tail(s)) ELSE s

RECURSIVE rstrip(_)
rstrip(s) ==
  IF s # <<>> /\ isspace(s[Len(s)]) THEN rstrip(SubSeq(s, 1, Len(s) - 1)) ELSE s

\* str.strip()
strip(s) == rstrip(lstrip(s))

lowerChar(c) ==
  CASE c = "A" -> "a" [] c = "B" -> "b" [] c = "C" -> "c" [] c = "N" -> "n"
    [] c = "S" -> "s" [] c = "U" -> "u" [] OTHER -> c

\* str.lower()
lower(s) == [i \in DOMAIN s |-> lowerChar(s[i])]

\* hashlib.md5(...).hexdigest(): a digest, one per text
md5(s) == <<"md5">> \o s

_get_cache_key(address) == md5(lower(address))

\* IsBlank without the test of address.strip()
IsBlank_NoStrip(address) == address = NoneStr \/ address = <<>>

\* `not address or not address.strip()`
IsBlank(address) == address = NoneStr \/ address = <<>> \/ strip(address) = <<>>

-----------------------------------------------------------------------------
\* The external provider (googlemaps.Client). One call either raises
\* googlemaps.exceptions.ApiError, raises some other exception, or returns a list of
\* results; a result may lack its geometry/location (or formatted_address) field.

GeoResult(lat, lng) == [wellformed |-> TRUE, lat |-> lat, lng |-> lng]
MalformedResult == [wellformed |-> FALSE, lat |-> None, lng |-> None]

ApiError == [kind |-> "ApiError", results |-> <<>>]
OtherError == [kind |-> "Exception", results |-> <<>>]
Response(results) == [kind |-> "response", results |-> results]

\* what one client.geocode call can do
Outcomes ==
  {ApiError, OtherError, Response(<<>>),
   Response(<<GeoResult(40, -74)>>),
   Response(<<GeoResult(34, -118), GeoResult(40, -74)>>),
   Response(<<MalformedResult>>)}

Raises(o) == o.kind \in {"ApiError", "Exception"}

\* Unreadable, an empty list counted in
Unreadable_OrEmpty(o) ==
  o.kind = "response" /\ (o.results = <<>> \/ ~o.results[1].wellformed)

\* a response whose first result cannot be read: the KeyError is raised inside the try
Unreadable(o) == o.kind = "response" /\ o.results # <<>> /\ ~o.results[1].wellformed

-----------------------------------------------------------------------------
\* GeocodingService._geocode_with_retry. A run is what one call of the method did:
\* the value returned (or that it raised), the provider calls it made, in order, and
\* the time.sleep delays it took, in order.

Run(result, raised, log, sleeps) ==
  [result |-> result, raised |-> raised, log |-> log, sleeps |-> sleeps]

\* the attempt made outcome o and slept `delay`; the loop then went on as run r
Then(o, delay, r) == Run(r.result, r.raised, <<o>> \o r.log, <<delay>> \o r.sleeps)

\* lines 52-64: the body of the try once client.geocode has returned geocode_result
ReadResponse(o) ==
  IF o.results # <<>> /\ Len(o.results) > 0
  THEN Run(<<o.results[1].lat, o.results[1].lng>>, FALSE, <<o>>, <<>>)
  ELSE Run(Unresolved, FALSE, <<o>>, <<>>)

\* OnApiError with its delays one step longer
OnApiError_Slower(attempt, o, rest) ==
  IF attempt < max_retries - 1
  THEN {Then(o, retry_delay * (attempt + 2), r) : r \in rest}
  ELSE {Run(Unresolved, FALSE, <<o>>, <<>>)}

\* OnApiError giving up one attempt early
OnApiError_OneShort(attempt, o, rest) ==
  IF attempt < max_retries - 2
  THEN {Then(o, retry_delay * (attempt + 1), r) : r \in rest}
  ELSE {Run(Unresolved, FALSE, <<o>>, <<>>)}

\* lines 66-71: except googlemaps.exceptions.ApiError
OnApiError(attempt, o, rest) ==
  IF attempt < max_retries - 1
  THEN {Then(o, retry_delay * (attempt + 1), r) : r \in rest}
  ELSE {Run(Unresolved, FALSE, <<o>>, <<>>)}

\* OnException with the delay of OnApiError
OnException_Linear(attempt, o, rest) ==
  IF attempt < max_retries - 1
  THEN {Then(o, retry_delay * (attempt + 1), r) : r \in rest}
  ELSE {Run(Unresolved, FALSE, <<o>>, <<>>)}

\* OnException, but the exception is not caught
OnException_Uncaught(attempt, o, rest) == {Run(Unresolved, TRUE, <<o>>, <<>>)}

\* OnException raising the exception of the last attempt
OnException_Reraise(attempt, o, rest) ==
  IF attempt < max_retries - 1
  THEN {Then(o, retry_delay, r) : r \in rest}
  ELSE {Run(Unresolved, TRUE, <<o>>, <<>>)}

\* lines 72-77: except Exception
OnException(attempt, o, rest) ==
  IF attempt < max_retries - 1
  THEN {Then(o, retry_delay, r) : r \in rest}
  ELSE {Run(Unresolved, FALSE, <<o>>, <<>>)}

\* lines 43-79: the runs of the for loop from iteration `attempt` on, over every
\* behaviour of the provider
RECURSIVE RetryLoop(_)
RetryLoop(attempt) ==
  IF attempt >= max_retries
  THEN {Run(Unresolved, FALSE, <<>>, <<>>)}
  ELSE UNION {
         IF o.kind = "ApiError" THEN OnApiError(attempt, o, RetryLoop(attempt + 1))
         ELSE IF o.kind = "Exception" \/ Unreadable(o)
              THEN OnException(attempt, o, RetryLoop(attempt + 1))
              ELSE {ReadResponse(o)}
         : o \in Outcomes }

Range(s) == {s[i] : i \in DOMAIN s}

RECURSIVE Sum(_)
Sum(s) == IF s = <<>> THEN 0 ELSE Head(s) + Sum(Tail(s))

\* A run with its provider calls counted but not told apart, and its sleeps added up:
\* what is kept of a run where `tracing` is off.
AnyCall == [kind |-> "call", results |-> <<>>]
Brief(run) ==
  Run(run.result, run.raised, [i \in 1..Len(run.log) |-> AnyCall],
      IF run.sleeps = <<>> THEN <<>> ELSE <<Sum(run.sleeps)>>)

\* every run of the whole loop
RetryRuns == RetryLoop(0)
BriefRetryRuns == {Brief(run) : run \in RetryRuns}

\* lines 37-79
_geocode_with_retry(cl, address) ==
  IF ~cl THEN {Run(Unresolved, FALSE, <<>>, <<>>)}
  ELSE IF tracing THEN RetryRuns ELSE BriefRetryRuns

-----------------------------------------------------------------------------
\* @lru_cache(maxsize=1000) around _cached_geocode. The cache is the list of its
\* entries, least recently used first; an entry is keyed by the call's arguments
\* (address_hash, address) and holds the value the call returned.

Entry(address_hash, address, result) ==
  [key |-> <<address_hash, address>>, result |-> result]

Keys(c) == {c[i].key : i \in DOMAIN c}

\* the position of the entry for `key`, 0 when there is none
Find(c, key) ==
  IF key \in Keys(c) THEN CHOOSE i \in DOMAIN c : c[i].key = key ELSE 0

Without(c, i) == SubSeq(c, 1, i - 1) \o SubSeq(c, i + 1, Len(c))

\* Touch, but a hit leaves the entry where it was
Touch_InPlace(c, i) == c

\* a hit makes the entry the most recently used one
Touch(c, i) == Append(Without(c, i), c[i])

\* Store, but nothing is memoized
Store_Nothing(c, e) == c

\* Store, but a failed lookup is not memoized
Store_SuccessOnly(c, e) ==
  IF e.result = Unresolved THEN c
  ELSE IF Len(c) >= maxsize THEN Append(Tail(c), e) ELSE Append(c, e)

\* a miss stores the new entry, in place of the least recently used one when full
Store(c, e) == IF Len(c) >= maxsize THEN Append(Tail(c), e) ELSE Append(c, e)

\* The two critical sections of the lru_cache wrapper, which holds its lock in each
\* and calls the wrapped method between them with the lock released. The first looks
\* the key up and counts the hit or the miss.
lru_lookup(c, h, m, key) ==
  LET i == Find(c, key)
  IN  IF i # 0
      THEN [hit |-> TRUE, cache |-> Touch(c, i), hits |-> h + 1, misses |-> m,
            result |-> c[i].result]
      ELSE [hit |-> FALSE, cache |-> c, hits |-> h, misses |-> m + 1,
            result |-> Unresolved]

\* lru_insert without the test for a key stored meanwhile
lru_insert_Unchecked(c, e) == Store(c, e)

\* The second stores the value the method returned, unless another caller stored
\* the key while the method ran.
lru_insert(c, e) == IF e.key \in Keys(c) THEN c ELSE Store(c, e)

\* What one call did to the service: the cache and counters it left, its run, and
\* whether the lru_cache answered ("hit"), called the method ("miss") or was not asked
\* ("none").
Call(c, h, m, run, how) ==
  [cache |-> c, hits |-> h, misses |-> m, result |-> run.result, raised |-> run.raised,
   log |-> run.log, sleeps |-> run.sleeps, how |-> how]

\* lines 32-35: the wrapped _cached_geocode(address_hash, address)
_cached_geocode(cl, c, h, m, address_hash, address) ==
  LET i == Find(c, <<address_hash, address>>)
  IN  IF i # 0
      THEN {Call(Touch(c, i), h + 1, m, Run(c[i].result, FALSE, <<>>, <<>>), "hit")}
      ELSE {IF run.raised
            THEN Call(c, h, m + 1, run, "miss")
            ELSE Call(Store(c, Entry(address_hash, address, run.result)), h, m + 1,
                      run, "miss")
            : run \in _geocode_with_retry(cl, address)}

\* lines 100-102: the except branch of get_coordinates, after the cached call raised
Fallback(cl, first, address) ==
  {Call(first.cache, first.hits, first.misses,
        Run(run.result, run.raised, first.log \o run.log, first.sleeps \o run.sleeps),
        first.how)
   : run \in _geocode_with_retry(cl, address)}

\* lines 81-102
get_coordinates(cl, c, h, m, address) ==
  IF IsBlank(address)
  THEN {Call(c, h, m, Run(Unresolved, FALSE, <<>>, <<>>), "none")}
  ELSE LET stripped == strip(address)
           address_hash == _get_cache_key(stripped)
       IN  UNION {IF first.raised THEN Fallback(cl, first, stripped) ELSE {first}
                  : first \in _cached_geocode(cl, c, h, m, address_hash, stripped)}

\* clear_cache leaving the counters as they were
clear_cache_KeepCounters(c, h, m) == [cache |-> <<>>, hits |-> h, misses |-> m]

\* lines 244-247: cache_clear() empties the cache and zeroes its counters
clear_cache(c, h, m) == [cache |-> <<>>, hits |-> 0, misses |-> 0]

\* hits / (hits + misses), as the fraction <<numerator, denominator>>
Ratio(n, d) == <<n, d>>

\* lines 249-258
get_cache_info(c, h, m) ==
  [hits |-> h, misses |-> m, maxsize |-> maxsize, currsize |-> Len(c),
   hit_rate |-> IF h + m > 0 THEN Ratio(h, h + m) ELSE Ratio(0, 1)]

-----------------------------------------------------------------------------
\* GeocodingService.batch_geocode, lines 104-137. A batch is what one call did: the
\* service it left, the list it returned (or that it raised) and, for each address
\* in turn, the provider calls made for it, how the lru_cache took part, and the
\* delay slept after it before going on.

Item(address, lat, lng) ==
  [address |-> address, lat |-> lat, lng |-> lng,
   success |-> lat # None /\ lng # None]

Batch(c, h, m, results, raised, calls, hows, delays) ==
  [cache |-> c, hits |-> h, misses |-> m, results |-> results, raised |-> raised,
   calls |-> calls, hows |-> hows, delays |-> delays]

\* lines 130-132
DelayAfter(i, addresses) == IF i < Len(addresses) THEN batch_delay ELSE 0

\* Cons, but a failed address ends the batch
Cons_StopOnFailure(address, r, delay, b) ==
  Batch(b.cache, b.hits, b.misses,
        <<Item(address, r.result[1], r.result[2])>>
          \o (IF r.result = Unresolved THEN <<>> ELSE b.results),
        b.raised, <<Len(r.log)>> \o b.calls, <<r.how>> \o b.hows, <<delay>> \o b.delays)

\* the iteration for addresses[i] ended as call r, and the rest of the loop as b
Cons(address, r, delay, b) ==
  Batch(b.cache, b.hits, b.misses,
        <<Item(address, r.result[1], r.result[2])>> \o b.results, b.raised,
        <<Len(r.log)>> \o b.calls, <<r.how>> \o b.hows, <<delay>> \o b.delays)

\* lines 116-132: the for loop from the i-th address on
RECURSIVE BatchLoop(_, _, _, _, _, _)
BatchLoop(cl, c, h, m, addresses, i) ==
  IF i > Len(addresses)
  THEN {Batch(c, h, m, <<>>, FALSE, <<>>, <<>>, <<>>)}
  ELSE UNION {
         IF r.raised
         THEN {Batch(r.cache, r.hits, r.misses, <<>>, TRUE, <<Len(r.log)>>, <<r.how>>, <<0>>)}
         ELSE {Cons(addresses[i], r, DelayAfter(i, addresses), b)
               : b \in BatchLoop(cl, r.cache, r.hits, r.misses, addresses, i + 1)}
         : r \in get_coordinates(cl, c, h, m, addresses[i]) }

batch_geocode(cl, c, h, m, addresses) == BatchLoop(cl, c, h, m, addresses, 1)

-----------------------------------------------------------------------------
\* GeocodingService.reverse_geocode, lines 139-182.

RevResult(formatted_address) ==
  [wellformed |-> TRUE, formatted_address |-> formatted_address]
MalformedRevResult == [wellformed |-> FALSE, formatted_address |-> NoneStr]

\* what one client.reverse_geocode call can do
RevOutcomes ==
  {ApiError, OtherError, Response(<<>>),
   Response(<<RevResult(<<"a">>)>>),
   Response(<<RevResult(<<"A">>), RevResult(<<"a">>)>>),
   Response(<<MalformedRevResult>>)}

\* lines 161-167
ReadReverseResponse(o) ==
  IF o.results # <<>> /\ Len(o.results) > 0
  THEN Run(o.results[1].formatted_address, FALSE, <<o>>, <<>>)
  ELSE Run(NoneStr, FALSE, <<o>>, <<>>)

\* ReverseOnApiError giving up one attempt early
ReverseOnApiError_OneShort(attempt, o, rest) ==
  IF attempt < max_retries - 2
  THEN {Then(o, retry_delay * (attempt + 1), r) : r \in rest}
  ELSE {Run(NoneStr, FALSE, <<o>>, <<>>)}

\* lines 169-174
ReverseOnApiError(attempt, o, rest) ==
  IF attempt < max_retries - 1
  THEN {Then(o, retry_delay * (attempt + 1), r) : r \in rest}
  ELSE {Run(NoneStr, FALSE, <<o>>, <<>>)}

\* lines 175-180
ReverseOnException(attempt, o, rest) ==
  IF attempt < max_retries - 1
  THEN {Then(o, retry_delay, r) : r \in rest}
  ELSE {Run(NoneStr, FALSE, <<o>>, <<>>)}

\* lines 154-182
RECURSIVE ReverseLoop(_)
ReverseLoop(attempt) ==
  IF attempt >= max_retries
  THEN {Run(NoneStr, FALSE, <<>>, <<>>)}
  ELSE UNION {
         IF o.kind = "ApiError"
         THEN ReverseOnApiError(attempt, o, ReverseLoop(attempt + 1))
         ELSE IF o.kind = "Exception" \/ Unreadable(o)
              THEN ReverseOnException(attempt, o, ReverseLoop(attempt + 1))
              ELSE {ReadReverseResponse(o)}
         : o \in RevOutcomes }

ReverseRuns == ReverseLoop(0)
BriefReverseRuns == {Brief(run) : run \in ReverseRuns}

reverse_geocode(cl, lat, lng) ==
  IF ~cl THEN {Run(NoneStr, FALSE, <<>>, <<>>)}
  ELSE IF tracing THEN ReverseRuns ELSE BriefReverseRuns

\* lines 228-242; no method of the service calls it
validate_coordinates(lat, lng) ==
  /\ -90 <= lat /\ lat <= 90
  /\ -180 <= lng /\ lng <= 180

\* the (lat, lng) inputs of reverse_geocode: a point, and points out of range
Points == {<<40, -74>>, <<91, 0>>, <<0, -181>>}

-----------------------------------------------------------------------------
\* CustomerDirectoryRepository.search_addresses_by_location, database.py.

\* a row of customer_directory: its id, coordinates and the columns the search reads
Record(id, lat, lng, country, state, city) ==
  [id |-> id, lat |-> lat, lng |-> lng, country |-> country, state |-> state,
   city |-> city]

\* SQL LIKE: % stands for any text, _ for any one character
RECURSIVE like(_, _)
like(text, pattern) ==
  IF pattern = <<>> THEN text = <<>>
  ELSE IF Head(pattern) = "%"
       THEN like(text, Tail(pattern)) \/ (text # <<>> /\ like(Tail(text), pattern))
       ELSE /\ text # <<>>
            /\ Head(pattern) = "_" \/ Head(pattern) = Head(text)
            /\ like(Tail(text), Tail(pattern))

\* column.ilike(f"%{value}%")
ilike(text, value) == like(lower(text), <<"%">> \o lower(value) \o <<"%">>)

\* `if filters.country:` and the like: None and the empty text set no filter
Filtered(text, value) == value = NoneStr \/ value = <<>> \/ ilike(text, value)

\* lines 223-243: the rows the query returns, in the order of the scan
Candidates(rows, filters) ==
  SelectSeq(rows, LAMBDA r :
    /\ r.lat # None
    /\ r.lng # None
    /\ Filtered(r.country, filters.country)
    /\ Filtered(r.state, filters.state)
    /\ Filtered(r.city, filters.city))

Abs(x) == IF x < 0 THEN -x ELSE x

\* 1000 * R * c of the Haversine formula of lines 265-281 for a centre at latitude
\* lat1 and a row at latitude lat2, the two 0, 1, 2 and 6 degrees of longitude apart:
\* the distance in metres, rounded up to the metre, so that `distance <= radius_km`
\* is exact for a radius of whole metres
Metres(lat1, lat2) ==
  CASE lat1 = 0 /\ lat2 = 0 -> <<0, 111195, 222390, 667170>>
    [] lat1 = 0 /\ lat2 = 1 -> <<111195, 157250, 248630, 676339>>
    [] lat1 = 0 /\ lat2 = 9 -> <<1000755, 1006863, 1024968, 1201231>>
    [] lat1 = 1 /\ lat2 = 0 -> <<111195, 157250, 248630, 676339>>
    [] lat1 = 1 /\ lat2 = 1 -> <<0, 111178, 222356, 667068>>
    [] lat1 = 1 /\ lat2 = 9 -> <<889560, 896419, 916688, 1110096>>
    [] lat1 = 3 /\ lat2 = 0 -> <<333585, 351614, 400863, 745646>>
    [] lat1 = 3 /\ lat2 = 1 -> <<222390, 248607, 314403, 702841>>
    [] lat1 = 3 /\ lat2 = 9 -> <<667170, 676264, 702842, 940717>>

HaversineMetres ==
  [lat1 \in {0, 1, 3}, lat2 \in {0, 1, 9}, dlng \in {0, 1, 2, 6} |->
     Metres(lat1, lat2)[IF dlng = 6 THEN 4 ELSE dlng + 1]]

_calculate_distance(lat1, lng1, lat2, lng2) == HaversineMetres[lat1, lat2, Abs(lng2 - lng1)]

\* WithinRadius with the boundary left out
WithinRadius_Strict(rows, filters) ==
  LET measured == [i \in DOMAIN rows |->
                     [address |-> rows[i],
                      distance |-> _calculate_distance(filters.center_lat,
                                     filters.center_lng, rows[i].lat, rows[i].lng)]]
  IN  SelectSeq(measured, LAMBDA x : x.distance < filters.radius_km)

\* lines 246-253: the rows within the radius, each with its distance
WithinRadius(rows, filters) ==
  LET measured == [i \in DOMAIN rows |->
                     [address |-> rows[i],
                      distance |-> _calculate_distance(filters.center_lat,
                                     filters.center_lng, rows[i].lat, rows[i].lng)]]
  IN  SelectSeq(measured, LAMBDA x : x.distance <= filters.radius_km)

\* round(distance, ndigits) of a distance in kilometres held in metres rounded up:
\* the nearest multiple of 10^(3 - ndigits) metres, in that unit (for ndigits = 2,
\* in hundredths of a kilometre)
round(distance, ndigits) ==
  LET step == 10 ^ (3 - ndigits)
  IN  (distance + (step \div 2) - 1) \div step

\* Insert ordering by the rounded distance
RECURSIVE Insert_ByRounded(_, _)
Insert_ByRounded(sorted, x) ==
  IF sorted = <<>> THEN <<x>>
  ELSE IF round(sorted[Len(sorted)].distance, 2) <= round(x.distance, 2)
       THEN Append(sorted, x)
       ELSE Append(Insert_ByRounded(SubSeq(sorted, 1, Len(sorted) - 1), x),
                   sorted[Len(sorted)])

\* list.sort(key=lambda x: x[1]): a stable sort by distance
RECURSIVE Insert(_, _)
Insert(sorted, x) ==
  IF sorted = <<>> THEN <<x>>
  ELSE IF sorted[Len(sorted)].distance <= x.distance THEN Append(sorted, x)
       ELSE Append(Insert(SubSeq(sorted, 1, Len(sorted) - 1), x), sorted[Len(sorted)])

RECURSIVE SortByDistance(_)
SortByDistance(xs) ==
  IF xs = <<>> THEN <<>>
  ELSE Insert(SortByDistance(SubSeq(xs, 1, Len(xs) - 1)), xs[Len(xs)])

Min(a, b) == IF a < b THEN a ELSE b

\* Slice taking one element more at its end
Slice_Inclusive(xs, from, to) == SubSeq(xs, Min(from, Len(xs)) + 1, Min(to + 1, Len(xs)))

\* a Python slice xs[from:to] with 0 <= from <= to
Slice(xs, from, to) == SubSeq(xs, Min(from, Len(xs)) + 1, Min(to, Len(xs)))

\* search_addresses_by_location counting the rows of the page it returns
search_addresses_by_location_PageTotal(rows, filters) ==
  LET addresses_with_distance ==
        SortByDistance(WithinRadius(Candidates(rows, filters), filters))
      skip == (filters.page - 1) * filters.page_size
      page == Slice(addresses_with_distance, skip, skip + filters.page_size)
  IN  [items |-> page, total |-> Len(page)]

\* lines 218-263
search_addresses_by_location(rows, filters) ==
  LET addresses_with_distance ==
        SortByDistance(WithinRadius(Candidates(rows, filters), filters))
      skip == (filters.page - 1) * filters.page_size
  IN  [items |-> Slice(addresses_with_distance, skip, skip + filters.page_size),
       total |-> Len(addresses_with_distance)]

-----------------------------------------------------------------------------
\* The service as a state machine. `last` is the last call made on the service:
\* its arguments, what it returned, how many provider calls it made and how long it
\* slept, and whether the call before it was the same call with the same arguments
\* (`again`); `trace` holds its provider calls and its sleeps, in order (told apart only
\* where `tracing` is on). `served` and `ranFn` count, since the last clear_cache,
\* the lookups answered from the cache and those that ran _geocode_with_retry.

Count(how, what) == IF how = what THEN 1 ELSE 0

RECURSIVE Occurrences(_, _)
Occurrences(s, x) ==
  IF s = <<>> THEN 0 ELSE Count(Head(s), x) + Occurrences(Tail(s), x)

NoCall == [op |-> "none", args |-> <<>>, result |-> <<>>, raised |-> FALSE,
           calls |-> 0, slept |-> 0, how |-> "none", again |-> FALSE]

NoTrace == [log |-> <<>>, sleeps |-> <<>>]

\* `job` is the state of the program that drives the API over several requests (a
\* client reading a search page by page, a geocoding script); none here
NoJob == [name |-> "none"]

Fresh ==
  /\ client \in BOOLEAN
  /\ cache = <<>>
  /\ hits = 0
  /\ misses = 0
  /\ last = NoCall
  /\ trace = NoTrace
  /\ served = 0
  /\ ranFn = 0
  /\ records = <<>>

Init == Fresh /\ tracing = FALSE /\ job = NoJob

IsGet(call) == call.op = "get_coordinates"

\* the service after the call r of get_coordinates(address)
Answered(address, r) ==
  /\ cache' = r.cache
  /\ hits' = r.hits
  /\ misses' = r.misses
  /\ served' = served + Count(r.how, "hit")
  /\ ranFn' = ranFn + Count(r.how, "miss")
  /\ last' = [op |-> "get_coordinates", args |-> address, result |-> r.result,
              raised |-> r.raised, calls |-> Len(r.log), slept |-> Sum(r.sleeps),
              how |-> r.how, again |-> (IsGet(last) /\ last.args = address)]
  /\ trace' = [log |-> r.log, sleeps |-> r.sleeps]

Resolved(address, r) ==
  Answered(address, r) /\ UNCHANGED <<client, tracing, records, job>>

GetCoordinates ==
  /\ hits + misses < MaxLookups
  /\ \E address \in Addresses :
       \E r \in get_coordinates(client, cache, hits, misses, address) :
         Resolved(address, r)

ClearCache ==
  /\ LET r == clear_cache(cache, hits, misses)
     IN  /\ cache' = r.cache
         /\ hits' = r.hits
         /\ misses' = r.misses
  /\ served' = 0
  /\ ranFn' = 0
  /\ last' = [NoCall EXCEPT !.op = "clear_cache"]
  /\ trace' = NoTrace
  /\ UNCHANGED <<client, tracing, records, job>>

GetCacheInfo ==
  /\ last' = [NoCall EXCEPT !.op = "get_cache_info",
                            !.result = get_cache_info(cache, hits, misses)]
  /\ trace' = NoTrace
  /\ UNCHANGED <<client, tracing, cache, hits, misses, served, ranFn, records, job>>

Next == GetCoordinates \/ ClearCache \/ GetCacheInfo

Spec == Init /\ [][Next]_vars

\* One call on a fresh service, each of its provider calls and sleeps recorded.
InitCall == Fresh /\ tracing = TRUE /\ job = NoJob

FirstGetCoordinates == last.op = "none" /\ GetCoordinates

ReverseGeocode ==
  \E point \in Points :
    \E r \in reverse_geocode(client, point[1], point[2]) :
      /\ last' = [op |-> "reverse_geocode", args |-> point, result |-> r.result,
                  raised |-> r.raised, calls |-> Len(r.log), slept |-> Sum(r.sleeps),
                  how |-> "none",
                  again |-> (last.op = "reverse_geocode" /\ last.args = point)]
      /\ trace' = [log |-> r.log, sleeps |-> r.sleeps]
      /\ UNCHANGED <<client, tracing, cache, hits, misses, served, ranFn, records, job>>

FirstReverseGeocode == last.op = "none" /\ ReverseGeocode

NextCall == FirstGetCoordinates \/ FirstReverseGeocode

SpecCall == InitCall /\ [][NextCall]_vars

\* A service whose lookups are dated. job.used[key] is the number, counted from the
\* start, of the last lookup of `key` by _cached_geocode (0: never looked up); a
\* lookup is a use of its key whether the cache answers it or stores its value.
CacheKeys ==
  {<<_get_cache_key(strip(a)), strip(a)>> : a \in {x \in Addresses : ~IsBlank(x)}}

InitUses ==
  Fresh /\ tracing = FALSE /\ job = [name |-> "uses", used |-> [k \in CacheKeys |-> 0]]

Use ==
  /\ hits + misses < MaxLookups
  /\ \E address \in Addresses :
       \E r \in get_coordinates(client, cache, hits, misses, address) :
         /\ Answered(address, r)
         /\ job' = IF r.how = "none" THEN job
                   ELSE [job EXCEPT
                           !.used[<<_get_cache_key(strip(address)), strip(address)>>] =
                             hits + misses + 1]
         /\ UNCHANGED <<client, tracing, records>>

NextUses == Use

SpecUses == InitUses /\ [][NextUses]_vars

\* Requests in flight at the same time on the one geocoding_service of main.py.
\* job.pending[t] is what request t is doing: nothing ("idle"), or running
\* _geocode_with_retry for its address after a miss ("calling"). A step is one
\* critical section of the lru_cache, or one whole clear_cache or get_cache_info;
\* `last` is the call that returned in the last step or, after a miss, the
\* _cached_geocode call that began in it.
Requests == {1, 2}

\* the addresses the requests ask for: one key more than the cache can hold
RequestAddresses == {<<"a">>, <<" ", "A">>, <<"a", "a">>}

Idle == [pc |-> "idle", address |-> <<>>]

\* the get_coordinates(address) call r has returned
Returned(address, r) ==
  [op |-> "get_coordinates", args |-> address, result |-> r.result,
   raised |-> r.raised, calls |-> Len(r.log), slept |-> Sum(r.sleeps), how |-> r.how,
   again |-> (IsGet(last) /\ last.args = address)]

InitRequests ==
  /\ Fresh
  /\ tracing = FALSE
  /\ job = [name |-> "requests", pending |-> [t \in Requests |-> Idle]]

\* get_coordinates up to the return of a hit, or up to the call of the method
Lookup(t) ==
  /\ job.pending[t].pc = "idle"
  /\ hits + misses < MaxLookups
  /\ \E address \in RequestAddresses :
       LET stripped == strip(address)
           r == lru_lookup(cache, hits, misses, <<_get_cache_key(stripped), stripped>>)
       IN  /\ ~IsBlank(address)
           /\ cache' = r.cache
           /\ hits' = r.hits
           /\ misses' = r.misses
           /\ served' = served + Count(r.hit, TRUE)
           /\ ranFn' = ranFn + Count(r.hit, FALSE)
           /\ IF r.hit
              THEN /\ last' = Returned(address,
                                       Call(r.cache, r.hits, r.misses,
                                            Run(r.result, FALSE, <<>>, <<>>), "hit"))
                   /\ job' = job
              ELSE /\ last' = [NoCall EXCEPT !.op = "_cached_geocode",
                                             !.args = address, !.how = "miss"]
                   /\ job' = [job EXCEPT !.pending[t] =
                                [pc |-> "calling", address |-> address]]
  /\ UNCHANGED <<client, tracing, trace, records>>

\* the method returns and the wrapper stores its value; get_coordinates returns
Finish(t) ==
  /\ job.pending[t].pc = "calling"
  /\ LET address == job.pending[t].address
         stripped == strip(address)
         stored(run) == lru_insert(cache, Entry(_get_cache_key(stripped), stripped,
                                                run.result))
     IN  \E run \in _geocode_with_retry(client, stripped) :
           \E r \in (IF run.raised
                      THEN Fallback(client, Call(cache, hits, misses, run, "miss"),
                                    stripped)
                      ELSE {Call(stored(run), hits, misses, run, "miss")}) :
             /\ cache' = r.cache
             /\ last' = Returned(address, r)
  /\ job' = [job EXCEPT !.pending[t] = Idle]
  /\ UNCHANGED <<client, tracing, hits, misses, trace, served, ranFn, records>>

NextRequests ==
  \/ \E t \in Requests : Lookup(t)
  \/ \E t \in Requests : Finish(t)
  \/ ClearCache
  \/ GetCacheInfo

SpecRequests == InitRequests /\ [][NextRequests]_vars

\* Calls of reverse_geocode one after the other, each provider call recorded.
NextReverse == ReverseGeocode

SpecReverse == InitCall /\ [][NextReverse]_vars

\* The lists handed to batch_geocode.
BatchInputs ==
  {<<>>,
   << <<"a">> >>,
   << <<" ">> >>,
   << <<"a">>, <<"a">> >>,
   << <<"a">>, <<" ", "a">> >>,
   << <<>>, <<"a">> >>,
   << <<"a">>, <<"A">> >>,
   << NoneStr, <<"a", "a">> >>,
   << <<"a">>, <<"a">>, <<"A">> >>}

BatchGeocode ==
  \E addresses \in BatchInputs :
    /\ hits + misses + Len(addresses) <= MaxLookups
    /\ \E b \in batch_geocode(client, cache, hits, misses, addresses) :
         /\ cache' = b.cache
         /\ hits' = b.hits
         /\ misses' = b.misses
         /\ served' = served + Occurrences(b.hows, "hit")
         /\ ranFn' = ranFn + Occurrences(b.hows, "miss")
         /\ last' = [op |-> "batch_geocode", args |-> addresses, result |-> b.results,
                     raised |-> b.raised, calls |-> b.calls, slept |-> b.delays,
                     how |-> b.hows,
                     again |-> (last.op = "batch_geocode" /\ last.args = addresses)]
         /\ trace' = NoTrace
    /\ UNCHANGED <<client, tracing, records, job>>

NextBatch == GetCoordinates \/ ClearCache \/ BatchGeocode

SpecBatch == Init /\ [][NextBatch]_vars

-----------------------------------------------------------------------------
\* The radius search over a store.

\* rows as the table can hold them: with both coordinates, with one, with none
Rows ==
  {Record(0, 0, 0, <<"U", "S">>, <<"N">>, <<"a">>),
   Record(0, 0, 1, <<"U", "S">>, <<"N">>, <<"b">>),
   Record(0, 1, 1, <<"C", "A">>, <<"N">>, <<"b">>),
   Record(0, 0, 2, <<"C", "A">>, <<"n">>, <<"a">>),
   Record(0, None, 0, <<"U", "S">>, <<"N">>, <<"a">>),
   Record(0, 0, None, <<"C", "A">>, <<"N">>, <<"b">>)}

RECURSIVE Stores(_)
Stores(n) ==
  IF n = 0 THEN {<<>>}
  ELSE LET smaller == Stores(n - 1)
       IN  smaller \cup {Append(st, [r EXCEPT !.id = n]) :
                           st \in {t \in smaller : Len(t) = n - 1}, r \in Rows}

\* LocationSearchFilters as models.py validates them: radius_km > 0, page >= 1,
\* page_size >= 1; radius_km in metres
LocationSearchFilters ==
  [center_lat : {0}, center_lng : {0}, radius_km : {111194, 111195, 1000000},
   country : {NoneStr, <<>>, <<"u", "s">>, <<"_", "a">>},
   state : {NoneStr, <<"n">>}, city : {NoneStr, <<"B">>},
   page : {1, 2}, page_size : {1, 2, 100}]

\* a store, and a service that no search touches
InitStore ==
  /\ client = FALSE
  /\ tracing = FALSE
  /\ cache = <<>>
  /\ hits = 0
  /\ misses = 0
  /\ last = NoCall
  /\ trace = NoTrace
  /\ served = 0
  /\ ranFn = 0
  /\ records \in Stores(MaxRecords)

InitSearch == InitStore /\ job = NoJob

\* the Query(...) constraints of the endpoint, which are those of LocationSearchFilters:
\* -90 <= center_lat <= 90, -180 <= center_lng <= 180, 0 < radius_km <= 1000,
\* page >= 1, 1 <= page_size <= 100
ValidQuery(q) ==
  /\ -90 <= q.center_lat /\ q.center_lat <= 90
  /\ -180 <= q.center_lng /\ q.center_lng <= 180
  /\ 0 < q.radius_km /\ q.radius_km <= 1000000
  /\ q.page >= 1
  /\ 1 <= q.page_size /\ q.page_size <= 100

\* the requests sent to the endpoint: the valid ones, and some with radius_km = 0
LocationQueries ==
  LocationSearchFilters
    \cup {[f EXCEPT !.radius_km = 0] :
            f \in {g \in LocationSearchFilters :
                     g.page = 1 /\ g.state = NoneStr /\ g.city = NoneStr}}

\* a request that fails validation is answered with an error and searches nothing
Rejected == [items |-> <<>>, total |-> 0]

SearchAddressesByLocation ==
  /\ last.op = "none"
  /\ \E q \in LocationQueries :
       last' = [NoCall EXCEPT !.op = "search_addresses_by_location",
                              !.args = q,
                              !.raised = ~ValidQuery(q),
                              !.result = IF ValidQuery(q)
                                         THEN search_addresses_by_location(records, q)
                                         ELSE Rejected]
  /\ UNCHANGED <<client, tracing, cache, hits, misses, trace, served, ranFn, records, job>>

NextSearch == SearchAddressesByLocation

SpecSearch == InitSearch /\ [][NextSearch]_vars

\* The endpoint GET /api/customers/search/location, main.py lines 129-178: the
\* page of the repository with each distance rounded to two decimals for display.
LocationSearchResponse(rows, q) ==
  LET found == search_addresses_by_location(rows, q)
  IN  [items |-> [i \in DOMAIN found.items |->
                    [address |-> found.items[i].address,
                     distance_km |-> round(found.items[i].distance, 2)]],
       total |-> found.total,
       page |-> q.page,
       page_size |-> q.page_size,
       total_pages |-> (found.total + q.page_size - 1) \div q.page_size]

\* rows 702.8403 km and 702.8413 km from the point (3, 0), both shown as 702.84,
\* a nearer row, and a row without coordinates
NearRows ==
  {Record(0, 1, 6, <<"U", "S">>, <<"N">>, <<"a">>),
   Record(0, 9, 2, <<"U", "S">>, <<"N">>, <<"a">>),
   Record(0, 0, 1, <<"U", "S">>, <<"N">>, <<"a">>),
   Record(0, None, None, <<"U", "S">>, <<"N">>, <<"a">>)}

RECURSIVE NearStores(_)
NearStores(n) ==
  IF n = 0 THEN {<<>>}
  ELSE LET smaller == NearStores(n - 1)
       IN  smaller \cup {Append(st, [r EXCEPT !.id = n]) :
                           st \in {t \in smaller : Len(t) = n - 1}, r \in NearRows}

\* searches around (3, 0); the radius 702840 is the 702.84 km shown for both rows
NearQueries ==
  [center_lat : {3}, center_lng : {0},
   radius_km : {702840, 702841, 702842, 1000000},
   country : {NoneStr}, state : {NoneStr}, city : {NoneStr},
   page : {1, 2}, page_size : {1, 2, 100}]

InitNear ==
  /\ client = FALSE
  /\ tracing = FALSE
  /\ cache = <<>>
  /\ hits = 0
  /\ misses = 0
  /\ last = NoCall
  /\ trace = NoTrace
  /\ served = 0
  /\ ranFn = 0
  /\ records \in NearStores(MaxRecords)
  /\ job = NoJob

LocationSearch ==
  /\ last.op = "none"
  /\ \E q \in {f \in NearQueries : ValidQuery(f)} :
       last' = [NoCall EXCEPT !.op = "location_search", !.args = q,
                              !.result = LocationSearchResponse(records, q)]
  /\ UNCHANGED <<client, tracing, cache, hits, misses, trace, served, ranFn, records, job>>

NextNear == LocationSearch

SpecNear == InitNear /\ [][NextNear]_vars

\* A client reading one search page by page: job.filters is the search, job.page
\* the last page it asked for, job.fetched the items of the pages so far, end to
\* end, and job.sizes the length of each page.
PagingFilters ==
  {f \in LocationSearchFilters :
     /\ f.page = 1 /\ f.state = NoneStr /\ f.city = NoneStr
     /\ f.country \in {NoneStr, <<"u", "s">>}
     /\ f.radius_km >= 111195}

InitPages ==
  /\ InitStore
  /\ job \in {[name |-> "pages", filters |-> f, page |-> 0, fetched |-> <<>>,
                sizes |-> <<>>] : f \in PagingFilters}

FetchPage ==
  /\ job.name = "pages"
  /\ job.page < Len(records) + 2
  /\ LET filters == [job.filters EXCEPT !.page = job.page + 1]
         result == search_addresses_by_location(records, filters)
     IN  /\ last' = [NoCall EXCEPT !.op = "search_addresses_by_location",
                                   !.args = filters, !.result = result]
         /\ job' = [job EXCEPT !.page = job.page + 1,
                               !.fetched = job.fetched \o result.items,
                               !.sizes = Append(job.sizes, Len(result.items))]
  /\ UNCHANGED <<client, tracing, cache, hits, misses, trace, served, ranFn, records>>

NextPages == FetchPage

SpecPages == InitPages /\ [][NextPages]_vars

-----------------------------------------------------------------------------
\* The batch-update endpoint of main.py and the two scripts that drive it.

\* a row of customer_directory as the geocoding endpoints read it
Row(id, lat, lng, full_address) ==
  [id |-> id, lat |-> lat, lng |-> lng, full_address |-> full_address]

\* lines 523-534 of main.py: GET /api/geocode/status
get_geocode_status(rows) ==
  LET with == Cardinality({i \in DOMAIN rows : rows[i].lat # None /\ rows[i].lng # None})
  IN  [total_addresses |-> Len(rows), with_coordinates |-> with,
       without_coordinates |-> Len(rows) - with]

\* Lacking taking every row
Lacking_Any(rows) == [i \in DOMAIN rows |-> i]

\* the positions of the rows with lat or lng NULL, in the order of the scan
Lacking(rows) ==
  SelectSeq([i \in DOMAIN rows |-> i],
            LAMBDA i : rows[i].lat = None \/ rows[i].lng = None)

\* What one batch-update request did: the service and the rows it left, its counts,
\* the ids of the rows it handed to get_coordinates and, for each of them in turn,
\* the entry it added to its details.
Update(c, h, m, rows, processed, successful, failed, ids, details) ==
  [cache |-> c, hits |-> h, misses |-> m, rows |-> rows, processed |-> processed,
   successful |-> successful, failed |-> failed, ids |-> ids, details |-> details]

\* the entry of `details` for a row: "success", "failed" (no coordinates) or "error"
\* (an exception)
Detail(id, status) == [id |-> id, status |-> status]

\* UpdateLoop leaving the request at the first exception
RECURSIVE UpdateLoop_Abort(_, _, _, _, _, _, _, _)
UpdateLoop_Abort(cl, c, h, m, rows, selected, k, commits) ==
  IF k > Len(selected)
  THEN {Update(c, h, m, rows, 0, 0, 0, {}, <<>>)}
  ELSE LET i == selected[k]
       IN  UNION {
             LET resolved == ~r.raised /\ r.result[1] # None /\ r.result[2] # None
             IN  UNION {
                   LET ok == resolved /\ committed
                       error == r.raised \/ (resolved /\ ~committed)
                       written == IF ok
                                  THEN [rows EXCEPT ![i].lat = r.result[1],
                                                    ![i].lng = r.result[2]]
                                  ELSE rows
                       status == IF ok THEN "success"
                                 ELSE IF error THEN "error" ELSE "failed"
                   IN  {Update(u.cache, u.hits, u.misses, u.rows, u.processed + 1,
                               u.successful + Count(ok, TRUE),
                               u.failed + Count(ok, FALSE),
                               u.ids \cup {rows[i].id},
                               <<Detail(rows[i].id, status)>> \o u.details)
                        : u \in IF error
                                THEN {Update(r.cache, r.hits, r.misses, written,
                                             0, 0, 0, {}, <<>>)}
                                ELSE UpdateLoop_Abort(cl, r.cache, r.hits, r.misses,
                                                      written, selected, k + 1, commits)}
                   : committed \in IF resolved THEN commits ELSE {TRUE} }
             : r \in get_coordinates(cl, c, h, m, rows[i].full_address) }

\* lines 457-501 of main.py: the loop over the selected rows, from the k-th on.
\* `commits` is what repo.db.commit() can do: succeed (TRUE) or raise (FALSE), the
\* row being then left as it was.
RECURSIVE UpdateLoop(_, _, _, _, _, _, _, _)
UpdateLoop(cl, c, h, m, rows, selected, k, commits) ==
  IF k > Len(selected)
  THEN {Update(c, h, m, rows, 0, 0, 0, {}, <<>>)}
  ELSE LET i == selected[k]
       IN  UNION {
             LET resolved == ~r.raised /\ r.result[1] # None /\ r.result[2] # None
             IN  UNION {
                   LET ok == resolved /\ committed
                       error == r.raised \/ (resolved /\ ~committed)
                       written == IF ok
                                  THEN [rows EXCEPT ![i].lat = r.result[1],
                                                    ![i].lng = r.result[2]]
                                  ELSE rows
                       status == IF ok THEN "success"
                                 ELSE IF error THEN "error" ELSE "failed"
                   IN  {Update(u.cache, u.hits, u.misses, u.rows, u.processed + 1,
                               u.successful + Count(ok, TRUE),
                               u.failed + Count(ok, FALSE),
                               u.ids \cup {rows[i].id},
                               <<Detail(rows[i].id, status)>> \o u.details)
                        : u \in UpdateLoop(cl, r.cache, r.hits, r.misses, written,
                                           selected, k + 1, commits)}
                   : committed \in IF resolved THEN commits ELSE {TRUE} }
             : r \in get_coordinates(cl, c, h, m, rows[i].full_address) }

\* lines 424-513 of main.py: POST /api/geocode/batch-update
batch_update_coordinates(cl, c, h, m, rows, limit, offset, commits) ==
  LET addresses_without_coords == Slice(Lacking(rows), offset, offset + limit)
  IN  IF addresses_without_coords = <<>>
      THEN {Update(c, h, m, rows, 0, 0, 0, {}, <<>>)}
      ELSE UpdateLoop(cl, c, h, m, rows, addresses_without_coords, 1, commits)

\* the stores the scripts run on: rows with and without coordinates, some with a
\* blank full_address
RECURSIVE Tables(_)
Tables(n) ==
  IF n = 0 THEN {<<>>}
  ELSE LET smaller == Tables(n - 1)
       IN  smaller \cup {Append(st, Row(n, r[1], r[2], r[3])) :
                           st \in {t \in smaller : Len(t) = n - 1},
                           r \in {<<None, None, <<>> >>, <<None, None, <<"a">> >>,
                                  <<40, -74, <<"a">> >>}}

\* the lookups the next batch-update request with `limit` and `offset` can make
Lookups(rows, limit, offset) ==
  LET selected == Slice(Lacking(rows), offset, offset + limit)
  IN  Cardinality({k \in DOMAIN selected : ~IsBlank(rows[selected[k]].full_address)})

\* `job` for a script: where it is in main() ("start", "loop", "done"), its loop
\* variables, the parity of the number of requests it has made, whether a request
\* failed, the delay it last slept, and the ids of the rows that lacked coordinates
\* at the start and of those submitted so far
Script(name, pc) ==
  [name |-> name, pc |-> pc, offset |-> 0, remaining |-> 0, turn |-> 0,
   error |-> FALSE,
   waited |-> 0, lacking |-> {records[i].id : i \in Range(Lacking(records))},
   submitted |-> {}]

InitScript(name, pc) ==
  /\ client \in BOOLEAN
  /\ tracing = FALSE
  /\ cache = <<>>
  /\ hits = 0
  /\ misses = 0
  /\ last = NoCall
  /\ trace = NoTrace
  /\ served = 0
  /\ ranFn = 0
  /\ records \in Tables(MaxRecords)
  /\ job = Script(name, pc)

\* the service and the store after the batch-update request u(limit, offset)
Updated(u, limit, offset) ==
  /\ cache' = u.cache
  /\ hits' = u.hits
  /\ misses' = u.misses
  /\ records' = u.rows
  /\ last' = [NoCall EXCEPT !.op = "batch_update_coordinates",
                            !.args = <<limit, offset>>,
                            !.result = [processed |-> u.processed,
                                        successful |-> u.successful,
                                        failed |-> u.failed,
                                        details |-> u.details]]
  /\ served' = served + (u.hits - hits)
  /\ ranFn' = ranFn + (u.misses - misses)
  /\ UNCHANGED <<client, tracing, trace>>

\* batch_geocode_script.py, main(). Lines 31-40: the status read before the loop.
BatchScriptStart ==
  /\ job.name = "batch_geocode_script" /\ job.pc = "start"
  /\ LET status == get_geocode_status(records)
         remaining == status.without_coordinates
     IN  /\ job' = [job EXCEPT !.remaining = remaining,
                               !.pc = IF remaining = 0 THEN "done" ELSE "loop"]
         /\ last' = [NoCall EXCEPT !.op = "get_geocode_status", !.result = status]
  /\ UNCHANGED <<client, tracing, cache, hits, misses, trace, served, ranFn, records>>

\* lines 48-74: one turn of `while remaining > 0` whose request is answered
BatchScriptBatch ==
  /\ job.name = "batch_geocode_script" /\ job.pc = "loop"
  /\ hits + misses + Lookups(records, batch_size, job.offset) <= MaxLookups
  /\ \E u \in batch_update_coordinates(client, cache, hits, misses, records,
                                        batch_size, job.offset, {TRUE}) :
       /\ Updated(u, batch_size, job.offset)
       /\ job' = IF u.processed = 0
                 THEN [job EXCEPT !.pc = "done", !.turn = 1 - @]
                 ELSE [job EXCEPT !.offset = @ + batch_size,
                                  !.turn = 1 - @,
                                  !.remaining = @ - u.processed,
                                  !.waited = 30,
                                  !.submitted = @ \cup u.ids,
                                  !.pc = IF job.remaining - u.processed > 0
                                         THEN "loop" ELSE "done"]

\* lines 76-78: the request raised, and the loop is left
BatchScriptError ==
  /\ job.name = "batch_geocode_script" /\ job.pc = "loop"
  /\ job' = [job EXCEPT !.pc = "done", !.turn = 1 - @, !.error = TRUE]
  /\ last' = [NoCall EXCEPT !.op = "batch_update_coordinates",
                            !.args = <<batch_size, job.offset>>, !.raised = TRUE]
  /\ UNCHANGED <<client, tracing, cache, hits, misses, trace, served, ranFn, records>>

NextBatchScript == BatchScriptStart \/ BatchScriptBatch \/ BatchScriptError

SpecBatchScript ==
  InitScript("batch_geocode_script", "start") /\ [][NextBatchScript]_vars

\* complete_geocode_script.py, main(). Lines 29-77: one turn of `while True` whose
\* request is answered; the status is read anew in every turn, and the request is
\* always made with offset 0.
CompleteScriptBatch ==
  /\ job.name = "complete_geocode_script" /\ job.pc = "loop"
  /\ LET remaining == get_geocode_status(records).without_coordinates
         limit == Min(batch_size, remaining)
     IN  IF remaining = 0
         THEN /\ job' = [job EXCEPT !.pc = "done", !.remaining = 0]
              /\ last' = [NoCall EXCEPT !.op = "get_geocode_status",
                                        !.result = get_geocode_status(records)]
              /\ UNCHANGED <<client, tracing, cache, hits, misses, trace, served,
                             ranFn, records>>
         ELSE /\ hits + misses + Lookups(records, limit, 0) <= MaxLookups
              /\ \E u \in batch_update_coordinates(client, cache, hits, misses,
                                                    records, limit, 0, {TRUE}) :
                   /\ Updated(u, limit, 0)
                   /\ job' = IF u.processed = 0
                             THEN [job EXCEPT !.pc = "done", !.turn = 1 - @,
                                              !.remaining = remaining]
                             ELSE [job EXCEPT !.remaining = remaining,
                                              !.turn = 1 - @,
                                              !.submitted = @ \cup u.ids,
                                              !.waited = IF remaining > limit
                                                         THEN 20 ELSE 0]

\* lines 79-82: the request raised; the script waits 5 s and goes round again
CompleteScriptError ==
  /\ job.name = "complete_geocode_script" /\ job.pc = "loop"
  /\ get_geocode_status(records).without_coordinates > 0
  /\ job' = [job EXCEPT !.turn = 1 - @, !.error = TRUE, !.waited = 50]
  /\ last' = [NoCall EXCEPT !.op = "batch_update_coordinates", !.raised = TRUE]
  /\ UNCHANGED <<client, tracing, cache, hits, misses, trace, served, ranFn, records>>

NextCompleteScript == CompleteScriptBatch \/ CompleteScriptError

SpecCompleteScript ==
  InitScript("complete_geocode_script", "loop") /\ [][NextCompleteScript]_vars

\* the script keeps running, and a request is answered in the end
FairCompleteScript == SpecCompleteScript /\ WF_vars(CompleteScriptBatch)

\* the lookups of the next turn would pass MaxLookups: the run is followed no further
Capped ==
  LET remaining == get_geocode_status(records).without_coordinates
  IN  hits + misses + Lookups(records, Min(batch_size, remaining), 0) > MaxLookups

-----------------------------------------------------------------------------
\* The customer endpoints of main.py over the table customer_directory, in one server
\* process. Of a row, its id, its key columns, the text that is geocoded and its
\* coordinates are kept.

CustomerDirectoryDB(id, customer_id, address_id, full_address, lat, lng) ==
  [id |-> id, customer_id |-> customer_id, address_id |-> address_id,
   full_address |-> full_address, lat |-> lat, lng |-> lng]

\* database.py lines 385-463: the three sample rows, added to an empty table only
init_sample_data(rows) ==
  IF Len(rows) > 0 THEN rows
  ELSE <<CustomerDirectoryDB(1, "CUST001", "ADDR001", <<"1">>, 40, -74),
         CustomerDirectoryDB(2, "CUST001", "ADDR002", <<"7">>, 34, -118),
         CustomerDirectoryDB(3, "CUST002", "ADDR001", <<"4">>, 43, -79)>>

\* lines 88-90: the position of the row with this id, 0 when there is none
get_address_by_id(rows, record_id) ==
  IF \E i \in DOMAIN rows : rows[i].id = record_id
  THEN CHOOSE i \in DOMAIN rows : rows[i].id = record_id
  ELSE 0

\* get_address_by_address_id finding nothing
get_address_by_address_id_Never(rows, customer_id, address_id) == 0

\* lines 96-103: the position of the first row with this pair, 0 when there is none
get_address_by_address_id(rows, customer_id, address_id) ==
  LET found == {i \in DOMAIN rows : /\ rows[i].customer_id = customer_id
                                    /\ rows[i].address_id = address_id}
  IN  IF found = {} THEN 0 ELSE CHOOSE i \in found : \A j \in found : i <= j

\* lines 62-86: the table with the new row
repo_create_customer_address(rows, id, address_data, lat, lng) ==
  Append(rows, CustomerDirectoryDB(id, address_data.customer_id, address_data.address_id,
                                   address_data.full_address, lat, lng))

\* repo_update_customer_address writing lat and leaving lng
repo_update_customer_address_LatOnly(rows, i, address_data, lat, lng) ==
  LET with_lat == IF lat # None THEN [rows EXCEPT ![i].lat = lat] ELSE rows
  IN  IF "full_address" \in address_data.fields_set
      THEN [with_lat EXCEPT ![i].full_address = address_data.full_address]
      ELSE with_lat

\* repo_update_customer_address writing lat and lng whatever they are
repo_update_customer_address_Clearing(rows, i, address_data, lat, lng) ==
  LET with_lng == [rows EXCEPT ![i].lat = lat, ![i].lng = lng]
  IN  IF "full_address" \in address_data.fields_set
      THEN [with_lng EXCEPT ![i].full_address = address_data.full_address]
      ELSE with_lng

\* lines 113-137: the table with row i updated. The fields of the request that
\* were set are written, and lat and lng when they are not None.
repo_update_customer_address(rows, i, address_data, lat, lng) ==
  LET with_lat == IF lat # None THEN [rows EXCEPT ![i].lat = lat] ELSE rows
      with_lng == IF lng # None THEN [with_lat EXCEPT ![i].lng = lng] ELSE with_lat
  IN  IF "full_address" \in address_data.fields_set
      THEN [with_lng EXCEPT ![i].full_address = address_data.full_address]
      ELSE with_lng

\* lines 139-147
repo_delete_customer_address(rows, i) == Without(rows, i)

\* What a request did: its HTTP status, the service and the table it left, and the
\* provider calls it made.
Reply(status, c, h, m, rows, calls) ==
  [status |-> status, cache |-> c, hits |-> h, misses |-> m, rows |-> rows,
   calls |-> calls]

\* main.py lines 180-203: POST /api/customers
create_customer_address(cl, c, h, m, rows, id, address_data) ==
  IF get_address_by_address_id(rows, address_data.customer_id,
                               address_data.address_id) # 0
  THEN {Reply(400, c, h, m, rows, 0)}
  ELSE {IF r.raised
        THEN Reply(500, r.cache, r.hits, r.misses, rows, Len(r.log))
        ELSE Reply(200, r.cache, r.hits, r.misses,
                   repo_create_customer_address(rows, id, address_data,
                                                r.result[1], r.result[2]),
                   Len(r.log))
        : r \in get_coordinates(cl, c, h, m, address_data.full_address)}

\* main.py lines 240-266: PUT /api/customers/{record_id}. The commit fails, and the
\* request with it, when full_address was set to null (the column is NOT NULL).
update_customer_address(cl, c, h, m, rows, record_id, address_data) ==
  LET i == get_address_by_id(rows, record_id)
      new == address_data.full_address
  IN  IF i = 0 THEN {Reply(404, c, h, m, rows, 0)}
      ELSE LET resolved ==
                 IF new # NoneStr /\ new # <<>> /\ new # rows[i].full_address
                 THEN get_coordinates(cl, c, h, m, new)
                 ELSE {Call(c, h, m, Run(Unresolved, FALSE, <<>>, <<>>), "none")}
           IN  {LET updated == repo_update_customer_address(rows, i, address_data,
                                                            r.result[1], r.result[2])
                IN  IF r.raised \/ updated[i].full_address = NoneStr
                    THEN Reply(500, r.cache, r.hits, r.misses, rows, Len(r.log))
                    ELSE Reply(200, r.cache, r.hits, r.misses, updated, Len(r.log))
                : r \in resolved}

\* main.py lines 268-284: DELETE /api/customers/{record_id}
delete_customer_address(c, h, m, rows, record_id) ==
  LET i == get_address_by_id(rows, record_id)
  IN  IF i = 0 THEN Reply(404, c, h, m, rows, 0)
      ELSE Reply(200, c, h, m, repo_delete_customer_address(rows, i), 0)

\* the (customer_id, address_id) pairs and the texts of the requests
KeyPairs == {<<"CUST001", "ADDR001">>, <<"CUST001", "ADDR002">>}

Texts == {<<"a">>, <<" ">>}

\* CustomerDirectoryCreate: full_address is a required str
CustomerDirectoryCreate ==
  {[customer_id |-> k[1], address_id |-> k[2], full_address |-> a] :
     k \in KeyPairs, a \in Texts}

\* CustomerDirectoryUpdate: full_address left unset, set to null, or set to a text;
\* the model has no customer_id and no address_id
CustomerDirectoryUpdate ==
  {[fields_set |-> {}, full_address |-> NoneStr]}
    \cup {[fields_set |-> {"full_address"}, full_address |-> a] :
             a \in Texts \cup {NoneStr}}

\* the ids the table has room for: the database never gives an id twice
MaxId == MaxRecords + 1

\* the tables a server process can find when it starts: none, or rows imported
\* without coordinates
ImportedTables ==
  {<<>>,
   <<CustomerDirectoryDB(1, "CUST001", "ADDR001", <<" ">>, None, None)>>,
   <<CustomerDirectoryDB(1, "CUST001", "ADDR001", <<"a">>, None, None),
     CustomerDirectoryDB(2, "CUST001", "ADDR002", <<"a">>, None, None)>>}

\* `job` for the server: starting or serving, and the id the next new row gets
InitServer ==
  /\ client \in BOOLEAN
  /\ tracing = FALSE
  /\ cache = <<>>
  /\ hits = 0
  /\ misses = 0
  /\ last = NoCall
  /\ trace = NoTrace
  /\ served = 0
  /\ ranFn = 0
  /\ records \in ImportedTables
  /\ job = [name |-> "server", pc |-> "startup", next_id |-> Len(records) + 1]

\* main.py lines 33-37: the startup event
Startup ==
  /\ job.name = "server" /\ job.pc = "startup"
  /\ records' = init_sample_data(records)
  /\ job' = [job EXCEPT !.pc = "serving", !.next_id = Len(records') + 1]
  /\ last' = [NoCall EXCEPT !.op = "init_sample_data"]
  /\ UNCHANGED <<client, tracing, cache, hits, misses, trace, served, ranFn>>

\* the service and the table after the request `reply`
Replied(op, args, reply) ==
  /\ cache' = reply.cache
  /\ hits' = reply.hits
  /\ misses' = reply.misses
  /\ records' = reply.rows
  /\ served' = served + (reply.hits - hits)
  /\ ranFn' = ranFn + (reply.misses - misses)
  /\ last' = [NoCall EXCEPT !.op = op, !.args = args, !.result = [status |-> reply.status],
                            !.raised = reply.status # 200, !.calls = reply.calls]
  /\ UNCHANGED <<client, tracing, trace>>

CreateCustomerAddress ==
  /\ job.name = "server" /\ job.pc = "serving"
  /\ \E address_data \in CustomerDirectoryCreate :
       \E reply \in create_customer_address(client, cache, hits, misses, records,
                                            job.next_id, address_data) :
         /\ reply.status # 400
              => /\ hits + misses < MaxLookups
                 /\ Len(records) < MaxRecords /\ job.next_id <= MaxId
         /\ Replied("create_customer_address", address_data, reply)
         /\ job' = IF reply.status = 200 THEN [job EXCEPT !.next_id = @ + 1] ELSE job

UpdateCustomerAddress ==
  /\ job.name = "server" /\ job.pc = "serving"
  /\ hits + misses < MaxLookups
  /\ \E record_id \in 1..MaxId, address_data \in CustomerDirectoryUpdate :
       \E reply \in update_customer_address(client, cache, hits, misses, records,
                                            record_id, address_data) :
         /\ Replied("update_customer_address", <<record_id, address_data>>, reply)
         /\ job' = job

DeleteCustomerAddress ==
  /\ job.name = "server" /\ job.pc = "serving"
  /\ \E record_id \in 1..MaxId :
       /\ Replied("delete_customer_address", record_id,
                  delete_customer_address(cache, hits, misses, records, record_id))
       /\ job' = job

\* what repo.db.commit() can do in the batch-update loop of this server
Commits == {TRUE, FALSE}

\* POST /api/geocode/batch-update
BatchUpdateCoordinates ==
  /\ job.name = "server" /\ job.pc = "serving"
  /\ \E limit \in 1..batch_size, offset \in 0..1 :
       /\ hits + misses + Lookups(records, limit, offset) <= MaxLookups
       /\ \E u \in batch_update_coordinates(client, cache, hits, misses, records,
                                             limit, offset, Commits) :
            Updated(u, limit, offset)
  /\ job' = job

NextServer ==
  \/ Startup
  \/ CreateCustomerAddress
  \/ UpdateCustomerAddress
  \/ DeleteCustomerAddress
  \/ BatchUpdateCoordinates

SpecServer == InitServer /\ [][NextServer]_vars

-----------------------------------------------------------------------------
\* Properties of the resolver.

\* an address that is None, empty, or made of whitespace only
OnlyWhitespace(address) ==
  address = NoneStr \/ \A i \in DOMAIN address : address[i] = " "

\* the cache holds `result` for the trimmed text of `address`
Memoized(c, address, result) ==
  \E i \in DOMAIN c : c[i].key[2] = strip(address) /\ c[i].result = result

\* C1: two successive get_coordinates(a) calls on a non-empty address a, nothing
\* between them, return the same result, and the second makes no provider call.
C1_RepeatedCall ==
  [][(/\ IsGet(last) /\ IsGet(last')
      /\ last.args # NoneStr /\ last.args # <<>>
      /\ last'.args = last.args)
     => (last'.result = last.result /\ last'.calls = 0 /\ ~last'.raised)]_vars

\* a second call answered from the cache with the coordinates of the first
C1_Witness ==
  IsGet(last) /\ last.how = "hit" /\ last.result # Unresolved /\ client

\* C2: get_coordinates of an address that is None, empty or only whitespace returns
\* Unresolved, makes no provider call, and leaves the cache and its hit and miss
\* counters as they were.
C2_BlankAddress ==
  [][(IsGet(last') /\ OnlyWhitespace(last'.args))
     => (/\ last'.result = Unresolved
         /\ last'.calls = 0
         /\ ~last'.raised
         /\ cache' = cache /\ hits' = hits /\ misses' = misses)]_vars

\* a whitespace-only address was resolved on a service whose cache holds an entry
C2_Witness ==
  /\ IsGet(last) /\ last.args = <<" ">> /\ last.result = Unresolved
  /\ cache # <<>> /\ hits > 0 /\ client

\* an attempt that returned a response the loop can read: an empty list, or a list
\* whose first result has its location
Readable(o) ==
  o.kind = "response" /\ (o.results = <<>> \/ o.results[1].wellformed)

\* the least position in `positions`, 0 when there is none
First(positions) ==
  IF positions = {} THEN 0
  ELSE CHOOSE i \in positions : \A j \in positions : i <= j

\* what a miss must have done when its loop stops at the first attempt among
\* `positions` of its provider calls, or after max_retries attempts
StopsAtFirst(positions) ==
  (IsGet(last) /\ last.how = "miss" /\ client)
  => LET k == First(positions)
     IN  /\ last.calls = (IF k # 0 THEN k ELSE max_retries)
         /\ k = 0 => last.result = Unresolved
         /\ (k # 0 /\ trace.log[k].results # <<>> /\ trace.log[k].results[1].wellformed)
              => last.result = <<trace.log[k].results[1].lat, trace.log[k].results[1].lng>>

\* C3 as stated: on a miss the number of provider calls is min(index of the first
\* attempt that does not raise, max_retries); two raises and then a non-empty result
\* give that result's first location after 3 calls; raises on every attempt give
\* Unresolved after max_retries calls.
C3_Original == StopsAtFirst({i \in DOMAIN trace.log : ~Raises(trace.log[i])})

\* C3, amended: the loop stops at the first attempt that returns a response it can
\* read (an empty list, or a list whose first result has its location), or after
\* max_retries attempts; a response whose first result lacks its location is
\* retried like a raise.
C3_RetryCount == StopsAtFirst({i \in DOMAIN trace.log : Readable(trace.log[i])})

\* the provider raised twice and then returned a location
C3_Witness ==
  /\ IsGet(last) /\ last.how = "miss" /\ last.calls = 3
  /\ Raises(trace.log[1]) /\ Raises(trace.log[2])
  /\ last.result = <<40, -74>>

\* C4: a failed lookup is memoized like a successful one. A miss stores what it
\* returned, Unresolved included; a call for an address whose entry holds Unresolved
\* returns Unresolved without a provider call, whatever the provider would do; and an
\* entry leaves the cache only by clear_cache or by eviction, when a miss is stored in
\* a full cache.
C4_FailureMemoized ==
  [][/\ (IsGet(last') /\ last'.how = "miss")
          => Memoized(cache', last'.args, last'.result)
     /\ (IsGet(last') /\ Memoized(cache, last'.args, Unresolved))
          => (last'.result = Unresolved /\ last'.calls = 0 /\ last'.how = "hit")
     /\ \A i \in DOMAIN cache :
          (\A j \in DOMAIN cache' : cache'[j] # cache[i])
            => \/ last'.op = "clear_cache"
               \/ IsGet(last') /\ last'.how = "miss" /\ Len(cache) = maxsize]_vars

\* a configured service answered Unresolved from the cache
C4_Witness ==
  IsGet(last) /\ last.how = "hit" /\ last.result = Unresolved /\ client

\* C5 as stated: two addresses that differ only in letter case or in surrounding
\* whitespace share one cache entry, so that resolving one right after the other
\* is a hit that returns the memoized result without a provider call.
C5_Original ==
  [][(/\ IsGet(last) /\ IsGet(last')
      /\ ~OnlyWhitespace(last.args) /\ ~OnlyWhitespace(last'.args)
      /\ lower(strip(last'.args)) = lower(strip(last.args)))
     => (last'.how = "hit" /\ last'.result = last.result /\ last'.calls = 0)]_vars

\* C6: get_cache_info reports the hits and misses made since the last clear_cache
\* and hit_rate = hits / (hits + misses), 0 when there were none; clear_cache leaves
\* an empty cache and zero counters, and the resolve that follows it is a miss,
\* which calls the provider again (on a service that has a client).
C6_CacheStats ==
  [][/\ last'.op = "get_cache_info"
          => LET info == last'.result
             IN  /\ info.hits = served' /\ info.misses = ranFn'
                 /\ info.currsize = Len(cache')
                 /\ info.hit_rate[2] > 0
                 /\ info.hit_rate[1] * (IF served' + ranFn' = 0 THEN 1 ELSE served' + ranFn')
                      = served' * info.hit_rate[2]
     /\ last'.op = "clear_cache" => (cache' = <<>> /\ hits' = 0 /\ misses' = 0)
     /\ (last.op = "clear_cache" /\ IsGet(last') /\ ~OnlyWhitespace(last'.args))
          => (last'.how = "miss" /\ (client => last'.calls >= 1))]_vars

\* statistics read after hits and misses
C6_Witness ==
  /\ last.op = "get_cache_info"
  /\ last.result.hits = 2 /\ last.result.misses = 1 /\ last.result.hit_rate = <<2, 3>>

\* C7: batch_geocode returns one entry per input address, in input order, each with
\* the input address and success = (lat and lng both present); a blank or failed
\* address gives success = FALSE and the addresses after it are still resolved: what
\* the cache holds for an address afterwards is what its entry reports.
C7_BatchResults ==
  last.op = "batch_geocode"
  => /\ ~last.raised
     /\ Len(last.result) = Len(last.args)
     /\ Len(last.how) = Len(last.args)
     /\ \A i \in DOMAIN last.args :
          LET item == last.result[i]
          IN  /\ item.address = last.args[i]
              /\ item.success = (item.lat # None /\ item.lng # None)
              /\ OnlyWhitespace(last.args[i]) => ~item.success
              /\ ~OnlyWhitespace(last.args[i]) => last.how[i] \in {"hit", "miss"}
              /\ \A j \in DOMAIN cache :
                   cache[j].key[2] = strip(last.args[i])
                     => cache[j].result = <<item.lat, item.lng>>

\* a batch whose first address failed and whose second was resolved
C7_Witness ==
  /\ last.op = "batch_geocode" /\ Len(last.result) = 2
  /\ ~last.result[1].success /\ last.result[2].success
  /\ last.how[1] = "miss"

\* C8 as stated: within batch_geocode no delay is slept after an address that was
\* answered from the cache.
C8_Original ==
  last.op = "batch_geocode"
  => \A i \in DOMAIN last.how : last.how[i] = "hit" => last.slept[i] = 0

\* C9: get_coordinates and reverse_geocode never raise, whatever the provider does
\* (API error, other exception, empty list, result without its fields, no client):
\* each ends after at most max_retries provider calls and returns a result or the
\* Unresolved value.
C9_NeverRaises ==
  /\ IsGet(last)
       => /\ ~last.raised
          /\ last.calls <= max_retries
          /\ last.result = Unresolved \/ (last.result[1] # None /\ last.result[2] # None)
  /\ last.op = "reverse_geocode"
       => /\ ~last.raised
          /\ last.calls <= max_retries
          /\ last.result # NoneStr
               => last.result = trace.log[last.calls].results[1].formatted_address

\* an API error, another exception and then a result without its location
C9_Witness ==
  /\ IsGet(last) /\ last.calls = 3 /\ last.result = Unresolved
  /\ trace.log[1].kind = "ApiError" /\ trace.log[2].kind = "Exception"
  /\ trace.log[3].kind = "response" /\ trace.log[3].results # <<>>

\* what a get_coordinates call must have done when no provider call follows an
\* attempt among `positions`: at most max_retries provider calls, one for each
\* attempt (an attempt but the last is followed by one delay), the cached call and
\* the fallback taken together
CallsBounded(positions) ==
  IsGet(last)
  => /\ last.calls = Len(trace.log)
     /\ last.calls <= max_retries
     /\ last.calls <= Len(trace.sleeps) + 1
     /\ \A i \in positions : i = Len(trace.log)

\* C26 as stated: one get_coordinates call makes at most max_retries provider calls,
\* at most one per attempt, and none after the first attempt that returns a
\* response; the fallback never adds a second round of attempts.
C26_Original == CallsBounded({i \in DOMAIN trace.log : ~Raises(trace.log[i])})

\* C26, amended: one get_coordinates call makes at most max_retries provider calls,
\* at most one per attempt, and none after the first attempt that returns a
\* response it can read (an empty list, or a list whose first result has its
\* location); the fallback never adds a second round of attempts.
C26_CallBound == CallsBounded({i \in DOMAIN trace.log : Readable(trace.log[i])})

\* a call that used every attempt: two responses it could not read, each followed
\* by a further provider call, and then an exception
C26_Witness ==
  /\ IsGet(last) /\ last.calls = max_retries /\ ~last.raised
  /\ Unreadable(trace.log[1]) /\ Unreadable(trace.log[2])
  /\ trace.log[3].kind = "Exception"

-----------------------------------------------------------------------------
\* Properties of the radius search.

\* a search that the endpoint accepted
IsSearch(call) == call.op = "search_addresses_by_location" /\ ~call.raised

\* the positions of the rows a search with `filters` keeps
Kept(rows, filters) ==
  {i \in DOMAIN rows :
     /\ rows[i].lat # None /\ rows[i].lng # None
     /\ Filtered(rows[i].country, filters.country)
     /\ Filtered(rows[i].state, filters.state)
     /\ Filtered(rows[i].city, filters.city)
     /\ _calculate_distance(filters.center_lat, filters.center_lng,
                            rows[i].lat, rows[i].lng) <= filters.radius_km}

\* C10: the search keeps a row iff it has both lat and lng, passes the country,
\* state and city filters, and lies at a distance <= radius_km from the centre, the
\* boundary included; a row with a missing coordinate is neither returned nor counted.
C10_RadiusFilter ==
  IsSearch(last)
  => LET kept == {records[i] : i \in Kept(records, last.args)}
         shown == {last.result.items[i].address : i \in DOMAIN last.result.items}
     IN  /\ last.result.total = Cardinality(kept)
         /\ shown \subseteq kept
         /\ (last.args.page = 1 /\ last.args.page_size >= Cardinality(kept))
              => shown = kept
         /\ \A r \in shown : r.lat # None /\ r.lng # None

\* a search that returned a row lying exactly on the radius, over a store that
\* also holds a row with a missing coordinate
C10_Witness ==
  /\ IsSearch(last)
  /\ \E i \in DOMAIN last.result.items :
       last.result.items[i].distance = last.args.radius_km
  /\ \E i \in DOMAIN records : records[i].lat = None \/ records[i].lng = None

\* C11: for a fixed store, centre, radius, filters and page_size, the pages 1, 2, ...
\* of the search put end to end hold rows that pass the radius filter, each once, in
\* ascending order of distance across the page boundaries; every page before the
\* last is full; when a page comes back empty the pages before it hold exactly the
\* rows that pass the filter, and every later page is empty.
C11_Pagination ==
  job.name = "pages"
  => LET all == job.fetched
         kept == {records[i] : i \in Kept(records, job.filters)}
         pages == DOMAIN job.sizes
     IN  /\ {all[i].address : i \in DOMAIN all} \subseteq kept
         /\ \A i, j \in DOMAIN all : i < j => all[i].address # all[j].address
         /\ \A i, j \in DOMAIN all : i < j => all[i].distance <= all[j].distance
         /\ \A p \in pages :
              /\ job.sizes[p] = 0 => Len(all) = Cardinality(kept)
              /\ \A q \in pages : (p < q /\ job.sizes[p] = 0) => job.sizes[q] = 0
              /\ \A q \in pages : (p < q /\ job.sizes[q] > 0)
                                     => job.sizes[p] = job.filters.page_size
         /\ job.page > Len(records) => job.sizes[job.page] = 0

\* three rows at two distances or more read one to a page, and then an empty page
C11_Witness ==
  /\ job.name = "pages" /\ job.filters.page_size = 1
  /\ job.sizes = <<1, 1, 1, 0>>
  /\ job.fetched[1].distance < job.fetched[3].distance

Max(a, b) == IF a > b THEN a ELSE b

\* the place, counted from 0, of the kept row at position i in the list of the kept
\* rows in ascending order of distance, rows at one distance in the order of the scan
Rank(rows, filters, i) ==
  LET d(k) == _calculate_distance(filters.center_lat, filters.center_lng,
                                  rows[k].lat, rows[k].lng)
  IN  Cardinality({j \in Kept(rows, filters) :
                     d(j) < d(i) \/ (d(j) = d(i) /\ j < i)})

\* C23: the total of a search is the number of rows that pass the radius filter,
\* whatever the page and the page_size asked for; the page returned is the elements
\* of the distance-sorted list at the indices from (page - 1) * page_size up to, not
\* including, (page - 1) * page_size + page_size, so that its length is
\* min(page_size, max(0, total - (page - 1) * page_size)).
C23_TotalAndPage ==
  IsSearch(last)
  => LET q == last.args
         items == last.result.items
         total == Cardinality(Kept(records, q))
         skip == (q.page - 1) * q.page_size
     IN  /\ last.result.total = total
         /\ search_addresses_by_location(
              records, [q EXCEPT !.page = 3 - q.page,
                                 !.page_size = IF q.page_size = 1 THEN 100
                                               ELSE q.page_size - 1]).total = total
         /\ Len(items) = Min(q.page_size, Max(0, total - skip))
         /\ \A k \in DOMAIN items :
              \E i \in Kept(records, q) :
                Rank(records, q, i) = skip + k - 1 /\ items[k].address = records[i]

\* the second page, of two rows at most, of a search that keeps three rows
C23_Witness ==
  /\ IsSearch(last)
  /\ last.args.page = 2 /\ last.args.page_size = 2
  /\ last.result.total = 3 /\ Len(last.result.items) = 1

\* C12 as stated: a search with radius 0 is not rejected, and is answered with
\* exactly the rows whose distance from the centre is 0.
C12_Original ==
  (last.op = "search_addresses_by_location" /\ last.args.radius_km = 0)
  => /\ ~last.raised
     /\ last.args.page_size >= Len(records)
          => {last.result.items[i].address : i \in DOMAIN last.result.items}
               = {records[i] : i \in Kept(records, last.args)}

\* C13 as stated: reverse_geocode(lat, lng) with lat outside [-90, 90] or lng outside
\* [-180, 180] returns None at once, with no provider call and no retry delay.
C13_Original ==
  (last.op = "reverse_geocode" /\ ~validate_coordinates(last.args[1], last.args[2]))
  => (last.result = NoneStr /\ last.calls = 0 /\ last.slept = 0)

\* what a reverse_geocode call must have done when its loop stops at the first
\* attempt among `positions` of its provider calls, or after max_retries attempts:
\* no cache is read or written, and a configured client is called every time
ReverseStopsAtFirst(positions) ==
  last.op = "reverse_geocode"
  => /\ cache = <<>> /\ hits = 0 /\ misses = 0
     /\ client
          => LET k == First(positions)
             IN  /\ 1 <= last.calls /\ last.calls <= max_retries
                 /\ last.calls = (IF k # 0 THEN k ELSE max_retries)
                 /\ last.result =
                      (IF k # 0 /\ trace.log[k].results # <<>>
                       THEN trace.log[k].results[1].formatted_address
                       ELSE NoneStr)

\* C14 as stated: reverse_geocode has no cache; with a client every call, a repeat
\* included, makes between 1 and max_retries provider calls, stops at the first call
\* that does not raise, and returns the first result's formatted address, or None
\* on an empty result or after max_retries failures.
C14_Original ==
  ReverseStopsAtFirst({i \in DOMAIN trace.log : ~Raises(trace.log[i])})

\* C14, amended: as stated, but the loop stops at the first call that returns a
\* response it can read (an empty list, or a list whose first result has its
\* formatted address); a response whose first result lacks it is retried like a
\* raise.
C14_ReverseRetry ==
  ReverseStopsAtFirst({i \in DOMAIN trace.log : Readable(trace.log[i])})

\* the same coordinates resolved again: two raises, then an address
C14_Witness ==
  /\ last.op = "reverse_geocode" /\ last.again /\ client
  /\ last.calls = 3 /\ Raises(trace.log[1]) /\ Raises(trace.log[2])
  /\ last.result = <<"a">>

\* the entries of a cache, as a set
Entries(c) == {c[i] : i \in DOMAIN c}

\* C15: whatever the interleaving of get_coordinates, clear_cache and get_cache_info
\* calls of requests in flight together, the cache holds at most maxsize entries and
\* at most one for a key, an entry enters it only as the value that a resolution of
\* its key has just returned, and hits + misses is the number of lookups made
\* since the last clear_cache.
C15_CacheIntact ==
  [][/\ Len(cache') <= maxsize
     /\ \A i, j \in DOMAIN cache' : cache'[i].key = cache'[j].key => i = j
     /\ hits' = served' /\ misses' = ranFn'
     /\ \A e \in Entries(cache') \ Entries(cache) :
          \E t \in Requests :
            /\ job.pending[t].pc = "calling"
            /\ job'.pending[t].pc = "idle"
            /\ e.key[2] = strip(job.pending[t].address)
            /\ e.key[1] = _get_cache_key(e.key[2])
            /\ IsGet(last') /\ last'.how = "miss"
            /\ last'.args = job.pending[t].address /\ last'.result = e.result
     /\ (last'.op = "get_cache_info" /\ UNCHANGED <<hits, misses, job>>)
          => (last'.result.hits = hits /\ last'.result.misses = misses
              /\ last'.result.currsize = Len(cache))]_vars

\* two requests missed the same key while neither had returned; the first to
\* return stored its value, and the second returned another value, left unstored
C15_Witness ==
  /\ job.name = "requests" /\ misses = 2 /\ hits = 0 /\ Len(cache) = 1
  /\ \A t \in Requests : job.pending[t].pc = "idle"
  /\ IsGet(last) /\ last.how = "miss" /\ last.result = Unresolved
  /\ cache[1].key[2] = strip(last.args) /\ cache[1].result # Unresolved

\* C18: an empty result is final. When a provider call of _geocode_with_retry
\* returns a list with no result, that call is the last one: the method returns
\* Unresolved with no further provider call and no delay after it, even before the
\* max_retries-th attempt.
C18_EmptyIsFinal ==
  (IsGet(last) /\ last.how = "miss")
  => \A k \in DOMAIN trace.log :
       trace.log[k] = Response(<<>>)
         => /\ k = Len(trace.log)
            /\ last.calls = k
            /\ last.result = Unresolved
            /\ Len(trace.sleeps) = k - 1

\* an API error, a delay, and then an empty list on the second of three attempts
C18_Witness ==
  /\ IsGet(last) /\ last.how = "miss" /\ last.calls = 2
  /\ trace.log = <<ApiError, Response(<<>>)>>
  /\ trace.sleeps = <<retry_delay>> /\ last.result = Unresolved

\* a call that ran a retry loop against the provider
Retried(call) ==
  client /\ ((IsGet(call) /\ call.how = "miss") \/ call.op = "reverse_geocode")

\* the delays of a retry loop whose failed attempts are those at `failed`: one delay
\* between two attempts and none after the last, retry_delay * n after an n-th
\* attempt that raised an API error and retry_delay after any other failed attempt;
\* the last attempt is the max_retries-th or one that did not fail
WaitsAfter(failed) ==
  Retried(last)
  => /\ Len(trace.sleeps) = Len(trace.log) - 1
     /\ \A n \in DOMAIN trace.sleeps :
          /\ n \in failed
          /\ n < max_retries
          /\ trace.sleeps[n] = (IF trace.log[n].kind = "ApiError"
                                THEN retry_delay * n ELSE retry_delay)
     /\ Len(trace.log) = max_retries \/ Len(trace.log) \notin failed

\* C19 as stated: get_coordinates and reverse_geocode wait once between two provider
\* attempts, retry_delay * n after an n-th attempt that raised an API error and
\* retry_delay after one that raised another exception; they do not wait after the
\* max_retries-th attempt nor after an attempt that returned a response.
C19_Original == WaitsAfter({n \in DOMAIN trace.log : Raises(trace.log[n])})

\* C19, amended: as stated, but an attempt that returned a response whose first
\* result cannot be read counts as one that raised another exception: retry_delay
\* is waited after it; no wait follows an attempt that returned an empty list or a
\* list whose first result can be read.
C19_Backoff == WaitsAfter({n \in DOMAIN trace.log : ~Readable(trace.log[n])})

\* another exception, then an API error on the second attempt, then a last failure
C19_Witness ==
  /\ Retried(last) /\ IsGet(last) /\ last.calls = max_retries
  /\ trace.log[1].kind = "Exception" /\ trace.log[2].kind = "ApiError"
  /\ Raises(trace.log[3])
  /\ trace.sleeps = <<retry_delay, 2 * retry_delay>>

\* 1 + 2 + ... + n
RECURSIVE Triangle(_)
Triangle(n) == IF n <= 0 THEN 0 ELSE n + Triangle(n - 1)

\* C20: whatever the mix of API errors and other exceptions, the delays of one
\* get_coordinates or reverse_geocode call add up to at most
\* retry_delay * (1 + 2 + ... + (max_retries - 1)), which is 3 * retry_delay.
C20_TotalDelay ==
  (IsGet(last) \/ last.op = "reverse_geocode")
  => /\ last.slept = Sum(trace.sleeps)
     /\ last.slept <= retry_delay * Triangle(max_retries - 1)
     /\ last.slept <= 3 * retry_delay

\* API errors on every attempt: the bound is reached
C20_Witness ==
  /\ IsGet(last) /\ last.calls = max_retries
  /\ \A n \in DOMAIN trace.log : trace.log[n].kind = "ApiError"
  /\ last.slept = 3 * retry_delay

\* the exact distance of row r from the centre of the search q
Exact(q, r) == _calculate_distance(q.center_lat, q.center_lng, r.lat, r.lng)

\* the rows of the store that the search q keeps
Within(q) ==
  {r \in Range(records) : r.lat # None /\ r.lng # None /\ Exact(q, r) <= q.radius_km}

\* C22: the items of a radius search come in ascending order of their exact
\* distance, rows at the same distance in the order of the scan. The two-decimal
\* distance_km is for display only: rows whose distances round to the same value
\* are still ordered by the exact one, and a row is kept when its exact distance
\* is at most radius_km.
C22_ExactOrder ==
  last.op = "location_search" =>
    LET q == last.args
        items == last.result.items
    IN  /\ \A i \in DOMAIN items :
             /\ items[i].address \in Within(q)
             /\ items[i].distance_km = round(Exact(q, items[i].address), 2)
        /\ \A i, j \in DOMAIN items :
             i < j =>
               \/ Exact(q, items[i].address) < Exact(q, items[j].address)
               \/ /\ Exact(q, items[i].address) = Exact(q, items[j].address)
                  /\ items[i].address.id < items[j].address.id
        /\ last.result.total = Cardinality(Within(q))
        /\ q.page = 1 =>
             /\ Len(items) = Min(q.page_size, Cardinality(Within(q)))
             /\ \A r \in Within(q) \ {items[i].address : i \in DOMAIN items} :
                  \A i \in DOMAIN items :
                    Exact(q, items[i].address) <= Exact(q, r)

\* two items shown with the same distance_km, the nearer one first although the
\* scan met it after the other
C22_Witness ==
  /\ last.op = "location_search"
  /\ \E i, j \in DOMAIN last.result.items :
       /\ i < j
       /\ last.result.items[i].distance_km = last.result.items[j].distance_km
       /\ Exact(last.args, last.result.items[i].address)
            < Exact(last.args, last.result.items[j].address)
       /\ last.result.items[i].address.id > last.result.items[j].address.id

\* the key of `c` whose last lookup is the oldest
LeastRecentlyUsed(c) ==
  CHOOSE k \in Keys(c) : \A j \in Keys(c) : job.used[k] <= job.used[j]

\* C21: the cache never holds more than maxsize entries. When a miss is stored
\* while the cache is full, exactly one entry leaves it, the one whose key has the
\* oldest last lookup (a hit being a lookup as much as a miss), and every other
\* entry stays.
C21_LruEviction ==
  [][job.name = "uses" =>
     /\ Len(cache') <= maxsize
     /\ (IsGet(last') /\ last'.how = "miss" /\ job' # job /\ Len(cache) = maxsize)
          => LET lru == LeastRecentlyUsed(cache)
                 key == <<_get_cache_key(strip(last'.args)), strip(last'.args)>>
             IN  /\ Len(cache') = maxsize
                 /\ Keys(cache') = (Keys(cache) \ {lru}) \cup {key}
                 /\ key \notin Keys(cache)
                 /\ \A e \in Entries(cache) : e.key # lru => e \in Entries(cache')
                 /\ \A e \in Entries(cache') : e.key = key => e.result = last'.result]_vars

\* a full cache took a new key after a hit: the key that left was stored after the
\* oldest entry still held, which the hit had made the more recent of the two
C21_Witness ==
  /\ job.name = "uses" /\ IsGet(last) /\ last.how = "miss"
  /\ Len(cache) = maxsize /\ hits > 0
  /\ \E k \in CacheKeys \ Keys(cache) :
       /\ job.used[k] > 0
       /\ \E j \in Keys(cache) : job.used[j] > job.used[k] /\ j # cache[Len(cache)].key

-----------------------------------------------------------------------------
\* Properties of the customer endpoints.

\* C24: whatever the writes made by the server (the startup's sample rows, create
\* and update with the resolver's result, batch-update), every row of the table has
\* lat and lng both present or both absent.
C24_BothOrNeither ==
  job.name = "server" =>
    \A i \in DOMAIN records : (records[i].lat = None) <=> (records[i].lng = None)

\* a table written by create, update and batch-update: it holds a row with both
\* coordinates and a row with none, after an update whose new address did not resolve
C24_Witness ==
  /\ job.name = "server" /\ last.op = "update_customer_address"
  /\ last.result.status = 200 /\ hits + misses >= 3
  /\ \E i, j \in DOMAIN records :
       /\ records[i].lat # None /\ records[i].lng # None /\ records[i].id > 3
       /\ records[j].lat = None /\ records[j].lng = None

\* C27: an update changes the lat or lng of a row only when the request sets a
\* full_address that differs from the stored one and the resolver returns
\* coordinates for it, which the row then holds. In every other case (full_address
\* not set, unchanged, or not resolved) lat and lng stay as they were: no update
\* clears a coordinate, and no update touches another row.
C27_UpdateFrame ==
  [][(job.name = "server" /\ last'.op = "update_customer_address")
     => LET record_id == last'.args[1]
            address_data == last'.args[2]
        IN  /\ Len(records') = Len(records)
            /\ \A i \in DOMAIN records :
                 /\ records[i].id # record_id => records'[i] = records[i]
                 /\ records[i].lat # None => records'[i].lat # None
                 /\ records[i].lng # None => records'[i].lng # None
                 /\ (records'[i].lat # records[i].lat \/ records'[i].lng # records[i].lng)
                      => /\ "full_address" \in address_data.fields_set
                         /\ address_data.full_address # NoneStr
                         /\ address_data.full_address # records[i].full_address
                         /\ records'[i].lat # None /\ records'[i].lng # None
                         /\ Memoized(cache', address_data.full_address,
                                     <<records'[i].lat, records'[i].lng>>)]_vars

\* an update gave a row with coordinates a new address that did not resolve: the
\* row holds the new address and the coordinates of the old one
C27_Witness ==
  /\ job.name = "server" /\ last.op = "update_customer_address" /\ last.result.status = 200
  /\ \E i \in DOMAIN records :
       /\ records[i].id = last.args[1]
       /\ records[i].full_address = <<"a">>
       /\ last.args[2].full_address = <<"a">>
       /\ records[i].lat = 43 /\ records[i].lng = -79
       /\ Memoized(cache, <<"a">>, Unresolved)

\* the (customer_id, address_id) pair of a row or of a create request
Pair(x) == <<x.customer_id, x.address_id>>

\* C28: from a table without duplicate keys, whatever the create, update and delete
\* requests handled by the server process, no two rows have the same
\* (customer_id, address_id). A create whose pair is already in the table is
\* answered 400, makes no provider call and leaves the table and the cache as they
\* were; an update changes neither customer_id nor address_id.
C28_UniquePairs ==
  [][job.name = "server"
     => /\ \A i, j \in DOMAIN records' : Pair(records'[i]) = Pair(records'[j]) => i = j
        /\ (/\ last'.op = "create_customer_address"
            /\ \E i \in DOMAIN records : Pair(records[i]) = Pair(last'.args))
             => /\ last'.result.status = 400
                /\ last'.calls = 0
                /\ UNCHANGED <<records, cache, hits, misses>>
        /\ last'.op = "update_customer_address"
             => /\ Len(records') = Len(records)
                /\ \A i \in DOMAIN records : Pair(records'[i]) = Pair(records[i])]_vars

\* a create was rejected for a pair that a row created earlier by this server holds
C28_Witness ==
  /\ job.name = "server" /\ last.op = "create_customer_address"
  /\ last.result.status = 400
  /\ \E i \in DOMAIN records :
       /\ Pair(records[i]) = Pair(last.args)
       /\ records[i].id = MaxId

\* the positions of the rows that a batch-update request with these arguments selects
Selected(rows, args) == Slice(Lacking(rows), args[2], args[2] + args[1])

-----------------------------------------------------------------------------
\* Properties of the geocoding scripts.

\* C16 as stated: when the loop of batch_geocode_script.main ends in a run without
\* an HTTP error, every row that lacked coordinates when the script started has been
\* submitted to the batch-update endpoint at least once.
C16_Original ==
  (job.name = "batch_geocode_script" /\ job.pc = "done" /\ ~job.error)
  => job.lacking \subseteq job.submitted

\* C17 as stated: complete_geocode_script.main goes on until every row has
\* coordinates; every row that lacks coordinates and has an address the provider
\* could resolve is submitted for geocoding in the end, however many other rows fail.
C17_Original ==
  <>(\/ Capped
     \/ \A i \in DOMAIN records :
          (records[i].lat = None /\ ~IsBlank(records[i].full_address))
            => records[i].id \in job.submitted)

\* C30 as stated: complete_geocode_script.main terminates when each address either
\* always resolves or always fails; its loop always reaches remaining == 0 or
\* processed == 0.
C30_Original ==
  <>(Capped \/ (job.name = "complete_geocode_script" /\ job.pc = "done"))

====
